---- MODULE Spec2Model ----
(***************************************************************************)
(* Model of the progress store and the POST API of course_player.py.       *)
(*                                                                         *)
(* progress.json is the only mutable persisted state.  The handler of a    *)
(* POST request reads and writes it through load_progress, save_progress,  *)
(* remove_progress and reset_progress.  Every access to the file is one    *)
(* step of the model, so that the read-modify-write of one request is      *)
(* visible as a load step followed by a write step.                        *)
(*                                                                         *)
(* A path is a sequence of characters; the document is kept by the kind of *)
(* its content and, when it holds a list under "watched", by that list.    *)
(***************************************************************************)
EXTENDS Integers, Sequences, FiniteSets, TLC

\* ------------------------------------------------------------------ bounds
\* Longest "watched" list of the document found on disk at start-up.
MaxLen == 2
\* Number of client connections that can be open at the same time.
NumClients == 2
\* Largest number of files in a scanned course folder.
MaxFiles == 3

\* Longest string handed to natural_sort_key on its own
MaxKeyLen == 3

\* Most pieces of an .srt file
MaxPieces == 3

Clients == 1..NumClients

\* ------------------------------------------------------------- strings
BS == "\\"
FS == "/"

\* Keys a document found on disk may hold.
KeyA == <<"a">>
KeyDA == <<"d", FS, "a">>
\* The same file named with the host's backslash separator.
PathDA == <<"d", BS, "a">>
EmptyStr == <<>>

StoredKeys == {KeyA, KeyDA}
RequestPaths == {KeyA, KeyDA, PathDA}

\* A path taken as it was sent.
NormalizeSkipped(p) == p

\* video_path.replace('\\', '/')
Normalize(p) == [i \in DOMAIN p |-> IF p[i] = BS THEN FS ELSE p[i]]

\* ------------------------------------------------------------- document
\* Content of progress.json by what json.load and data.get make of it:
\*   missing     no such file
\*   unparsable  not JSON (an empty or truncated file included)
\*   nonobject   JSON, but not an object (a list, a number, null)
\*   nofield     an object without the key "watched"
\*   null        an object whose "watched" is null, a number or a boolean
\*   list        an object whose "watched" is a list of keys
\*   str         an object whose "watched" is a string: its characters
\*   dict        an object whose "watched" is an object: its keys
Doc(kind, watched) == [kind |-> kind, watched |-> watched]
MissingDoc == Doc("missing", <<>>)
UnparsableDoc == Doc("unparsable", <<>>)
NonObjectDoc == Doc("nonobject", <<>>)
NoFieldDoc == Doc("nofield", <<>>)
NullDoc == Doc("null", <<>>)
ListDoc(w) == Doc("list", w)
StrDoc(s) == Doc("str", s)
DictDoc(ks) == Doc("dict", ks)

SeqsUpTo(S, n) == UNION {[1..m -> S] : m \in 0..n}

\* progress.json as found on disk when the server starts: the file is
\* read as it is, whoever wrote it (an earlier run, an editor, a copy).
InitialDocs ==
    {MissingDoc, UnparsableDoc, NonObjectDoc, NoFieldDoc, NullDoc}
        \cup {ListDoc(w) : w \in SeqsUpTo(StoredKeys, MaxLen)}
        \cup {StrDoc(s) : s \in StoredKeys}
        \cup {DictDoc(<<KeyA>>)}

\* A Python value returned by load_progress: a list, None (or another value
\* that `in` rejects), a str or a dict.
PyList(w) == [type |-> "list", isnone |-> FALSE, list |-> w, other |-> <<>>]
PyNone == [type |-> "none", isnone |-> TRUE, list |-> <<>>, other |-> <<>>]
PyStr(s) == [type |-> "str", isnone |-> FALSE, list |-> <<>>, other |-> s]
PyDict(ks) == [type |-> "dict", isnone |-> FALSE, list |-> <<>>, other |-> ks]

\* load_progress(): [] when the file is missing or reading it raises
\* (json.load on a non-JSON file, .get on a non-object); otherwise
\* data.get('watched', []), whatever that value is.
load_progress(f) ==
    CASE f.kind = "missing" -> PyList(<<>>)
      [] f.kind = "unparsable" -> PyList(<<>>)
      [] f.kind = "nonobject" -> PyList(<<>>)
      [] f.kind = "nofield" -> PyList(<<>>)
      [] f.kind = "null" -> PyNone
      [] f.kind = "str" -> PyStr(f.watched)
      [] f.kind = "dict" -> PyDict(f.watched)
      [] OTHER -> PyList(f.watched)

\* x in watched, for a list
InList(k, w) == \E i \in DOMAIN w : w[i] = k

\* x in watched, for a str: x is a substring
InStr(k, s) == \E i \in 1..(Len(s) - Len(k) + 1) : SubSeq(s, i, i + Len(k) - 1) = k

\* `x in watched` for the value v that load_progress returned: an element of
\* a list, a substring of a str, a key of a dict
PyIn(k, v) ==
    CASE v.type = "list" -> InList(k, v.list)
      [] v.type = "str" -> InStr(k, v.other)
      [] v.type = "dict" -> InList(k, v.other)
      [] OTHER -> FALSE

\* watched.append, watched.remove exist: AttributeError on a str or a dict
HasListMethods(v) == v.type = "list"

\* watched.append(x)
ListAppend(w, k) == Append(w, k)

\* A remove that drops the last element (watched.pop()) instead of x.
ListRemovePop(w, k) == SubSeq(w, 1, Len(w) - 1)

\* watched.remove(x): deletes the first occurrence of x only
ListRemove(w, k) ==
    LET i == CHOOSE j \in DOMAIN w :
                 w[j] = k /\ \A m \in 1..(j - 1) : w[m] # k
    IN SubSeq(w, 1, i - 1) \o SubSeq(w, i + 1, Len(w))

\* Outcome of `with open(PROGRESS_FILE, 'w') as f: json.dump(...)`:
\*   ok         the document is replaced
\*   open_fail  open raises, the file is left as it was
\*   dump_fail  the write raises after open has truncated the file
WriteOutcomes == {"ok", "open_fail", "dump_fail"}

\* A write that appends the newest entry alone instead of dumping the list.
WriteFileIncremental(f, w, o) ==
    CASE o = "ok" -> ListDoc(IF w = <<>> THEN <<>> ELSE <<w[Len(w)]>>)
      [] o = "open_fail" -> f
      [] OTHER -> UnparsableDoc

WriteFile(f, w, o) ==
    CASE o = "ok" -> ListDoc(w)
      [] o = "open_fail" -> f
      [] OTHER -> UnparsableDoc

\* save_progress writes only `if normalized_path not in watched`
SaveNeedsWrite(v, k) == ~PyIn(k, v)

\* remove_progress writes only `if normalized_path in watched`
RemoveNeedsWrite(v, k) == PyIn(k, v)

\* A reset that dumps the list found in the document.
ResetKeepsList(f) == IF f.kind = "list" THEN f.watched ELSE <<>>

\* reset_progress dumps {'watched': []}
ResetWatched(f) == <<>>

\* A write without its try/except: the failure reaches do_POST.
WriteErrorRaises(o) == o # "ok"

\* `except Exception as e: print(...)` around every write: the exception of
\* a failed write never leaves save/remove/reset_progress.
WriteErrorPropagates(o) == FALSE

\* ------------------------------------------------------------- requests
Routes == {"mark", "toggle", "reset", "other"}

\* The request body by what decode('utf-8'), json.loads and
\* data.get('path', '') make of it.
\*   undecodable  bytes that are no UTF-8: decode raises UnicodeDecodeError
\*   unloadable   an integer of thousands of digits: json.loads raises
\*                ValueError, which is no JSONDecodeError
\*   toodeep      brackets nested by the thousand: json.loads raises
\*                RecursionError
\*   malformed  not JSON
\*   nonobject  JSON, but not an object
\*   object     an object; ptype says what data.get('path', '') returns:
\*       absent (the default ''), string, falsy (0, null, false, [])
\*       or truthy (5, true, [1]): a value that is not a string
Body(kind, ptype, s) == [kind |-> kind, ptype |-> ptype, s |-> s]
Bodies ==
    {Body("undecodable", "absent", EmptyStr), Body("unloadable", "absent", EmptyStr),
     Body("toodeep", "absent", EmptyStr),
     Body("malformed", "absent", EmptyStr), Body("nonobject", "absent", EmptyStr),
     Body("object", "absent", EmptyStr), Body("object", "falsy", EmptyStr),
     Body("object", "truthy", EmptyStr), Body("object", "string", EmptyStr)}
        \cup {Body("object", "string", p) : p \in RequestPaths}

\* `if video_path:`
Truthy(b) == b.ptype = "truthy" \/ (b.ptype = "string" /\ b.s # EmptyStr)

\* ------------------------------------------------------------- text
\* A string is a sequence of characters.  SUP2 stands for the superscript
\* two (U+00B2): str.isdigit() holds of it, the pattern \d does not match it
\* and int() rejects it.
SUP2 == "sup2"

\* The characters of the model in code point order.
CharOrder ==
    <<"-", ".", FS, "0", "1", "2", "4", "G", "K", "M", "P", "S", "T", "V", BS,
      "_", "a", "b", "c", "d", "e", "f", "g", "h", "i", "j", "k", "l", "m",
      "n", "o", "p", "r", "s", "t", "u", "v", "w", "x", "y", SUP2>>

Ord(c) == CHOOSE i \in DOMAIN CharOrder : CharOrder[i] = c

\* the characters matched by \d
IsDecimal(c) == c \in {"0", "1", "2", "4"}

DigitValue(c) == CASE c = "0" -> 0 [] c = "1" -> 1 [] c = "2" -> 2 [] OTHER -> 4

\* str.isdigit() of one character
IsDigitChar(c) == IsDecimal(c) \/ c = SUP2

\* str.lower() of one character
LowerChar(c) ==
    CASE c = "G" -> "g" [] c = "K" -> "k" [] c = "M" -> "m" [] c = "P" -> "p"
      [] c = "S" -> "s" [] c = "T" -> "t" [] c = "V" -> "v" [] OTHER -> c

Lower(s) == [i \in DOMAIN s |-> LowerChar(s[i])]

\* s.startswith(p), s.endswith(p)
StartsWith(s, p) == Len(p) <= Len(s) /\ SubSeq(s, 1, Len(p)) = p
EndsWith(s, p) == Len(p) <= Len(s) /\ SubSeq(s, Len(s) - Len(p) + 1, Len(s)) = p

\* Comparison of two str values: by code point, a proper prefix first.
StrLess(a, b) ==
    \E i \in 1..(Len(b)) :
        /\ \A j \in 1..(i - 1) : j <= Len(a) /\ a[j] = b[j]
        /\ \/ i = Len(a) + 1
           \/ i <= Len(a) /\ Ord(a[i]) < Ord(b[i])

\* int() of a run of decimal digits
RECURSIVE IntOf(_)
IntOf(ds) ==
    IF ds = <<>> THEN 0
    ELSE 10 * IntOf(SubSeq(ds, 1, Len(ds) - 1)) + DigitValue(ds[Len(ds)])

\* First index from i on where s has (d = TRUE) or has not (d = FALSE) a
\* decimal digit; Len(s) + 1 when there is none.
RunEnd(s, i, d) ==
    IF \E j \in i..Len(s) : IsDecimal(s[j]) = d
    THEN CHOOSE j \in i..Len(s) :
            IsDecimal(s[j]) = d /\ \A m \in i..(j - 1) : IsDecimal(s[m]) # d
    ELSE Len(s) + 1

\* re.split(r'(\d+)', s): text, digits, text, ..., text; the pieces of text
\* may be empty.
RECURSIVE ReSplitFrom(_, _)
ReSplitFrom(s, i) ==
    LET j == RunEnd(s, i, TRUE)
    IN  IF j > Len(s)
        THEN <<SubSeq(s, i, Len(s))>>
        ELSE LET k == RunEnd(s, j, FALSE)
             IN <<SubSeq(s, i, j - 1), SubSeq(s, j, k - 1)>> \o ReSplitFrom(s, k)

ReSplit(s) == ReSplitFrom(s, 1)

\* text.isdigit()
IsDigitStr(t) == t # <<>> /\ \A i \in DOMAIN t : IsDigitChar(t[i])

\* int(text) raises ValueError
IntRaises(t) == \E i \in DOMAIN t : ~IsDecimal(t[i])

NumTok(n) == [num |-> TRUE, n |-> n, t |-> <<>>]
TextTok(t) == [num |-> FALSE, n |-> 0, t |-> t]

\* natural_sort_key(s) raises: a piece isdigit() accepts and int() rejects.
KeyRaises(s) ==
    \E i \in DOMAIN ReSplit(s) : IsDigitStr(ReSplit(s)[i]) /\ IntRaises(ReSplit(s)[i])

\* [int(text) if text.isdigit() else text.lower() for text in parts]
RECURSIVE Tokens(_)
Tokens(parts) ==
    IF parts = <<>> THEN <<>>
    ELSE <<IF IsDigitStr(parts[1]) THEN NumTok(IntOf(parts[1]))
           ELSE TextTok(Lower(parts[1]))>>
            \o Tokens(SubSeq(parts, 2, Len(parts)))

\* natural_sort_key(s), for a string on which it does not raise
natural_sort_key(s) == Tokens(ReSplit(s))

\* Comparison of two pieces of a key: int with int, str with str.
TokLess(a, b) ==
    IF a.num /\ b.num THEN a.n < b.n
    ELSE IF ~a.num /\ ~b.num THEN StrLess(a.t, b.t)
    ELSE FALSE

\* Comparison of two keys, as of two Python lists.
KeyLess(a, b) ==
    \E i \in 1..Len(b) :
        /\ \A j \in 1..(i - 1) : j <= Len(a) /\ a[j] = b[j]
        /\ \/ i = Len(a) + 1
           \/ i <= Len(a) /\ TokLess(a[i], b[i])

\* list.sort(key=...) on items [key, val]: a stable sort.  x goes before the
\* first item whose key is greater than its own.
SortInsert(sorted, x) ==
    IF \E i \in DOMAIN sorted : KeyLess(x.key, sorted[i].key)
    THEN LET i == CHOOSE j \in DOMAIN sorted :
                    /\ KeyLess(x.key, sorted[j].key)
                    /\ \A m \in 1..(j - 1) : ~KeyLess(x.key, sorted[m].key)
         IN SubSeq(sorted, 1, i - 1) \o <<x>> \o SubSeq(sorted, i, Len(sorted))
    ELSE Append(sorted, x)

RECURSIVE StableSort(_)
StableSort(items) ==
    IF items = <<>> THEN <<>>
    ELSE SortInsert(StableSort(SubSeq(items, 1, Len(items) - 1)), items[Len(items)])

\* The values of the items sorted by key.
SortByKey(keyed) ==
    LET r == StableSort(keyed) IN [i \in DOMAIN r |-> r[i].val]

\* sep.join(parts)
RECURSIVE Join(_, _)
Join(parts, sep) ==
    IF parts = <<>> THEN <<>>
    ELSE IF Len(parts) = 1 THEN parts[1]
    ELSE parts[1] \o sep \o Join(SubSeq(parts, 2, Len(parts)), sep)

\* s.split('/')
RECURSIVE SplitSlash(_)
SplitSlash(s) ==
    IF \E i \in DOMAIN s : s[i] = FS
    THEN LET i == CHOOSE j \in DOMAIN s : s[j] = FS /\ \A m \in 1..(j - 1) : s[m] # FS
         IN <<SubSeq(s, 1, i - 1)>> \o SplitSlash(SubSeq(s, i + 1, Len(s)))
    ELSE <<s>>

\* ------------------------------------------------------------- file tree
\* File and directory names of the course folders of the model.
N_V_MP4 == <<"V", ".", "M", "P", "4">>
N_V_srt == <<"V", ".", "s", "r", "t">>
N_dot_h == <<".", "h">>
N_n_pdf == <<"n", ".", "p", "d", "f">>
N_a_pdf == <<"a", ".", "p", "d", "f">>
N_progress_json == <<"p", "r", "o", "g", "r", "e", "s", "s", ".", "j", "s", "o", "n">>
N_index_html == <<"i", "n", "d", "e", "x", ".", "h", "t", "m", "l">>
N_course_player_py == <<"c", "o", "u", "r", "s", "e", "_", "p", "l", "a", "y", "e", "r", ".", "p", "y">>
N_0 == <<"0">>
N_00_General == <<"0", "0", "-", "G", "e", "n", "e", "r", "a", "l">>
N_sup2 == <<SUP2>>
N_S == <<"S">>
N_a_mp4 == <<"a", ".", "m", "p", "4">>
N_v_mp4 == <<"v", ".", "m", "p", "4">>
N_v1_mp4 == <<"v", "1", ".", "m", "p", "4">>
N_v01_mp4 == <<"v", "0", "1", ".", "m", "p", "4">>
N_xbs_a_mp4 == <<"x", BS, "a", ".", "m", "p", "4">>
N_x == <<"x">>
N_xbs_Module1 == <<"x", BS, "M", "o", "d", "u", "l", "e", "1">>
N_v1_srt == <<"v", "1", ".", "s", "r", "t">>
N_v1_vtt == <<"v", "1", ".", "v", "t", "t">>
N_Module1 == <<"M", "o", "d", "u", "l", "e", "1">>
N_module2 == <<"m", "o", "d", "u", "l", "e", "2">>
N_Topic == <<"T", "o", "p", "i", "c">>

\* VIDEO_EXTENSIONS, SUBTITLE_EXTENSIONS (in their priority order)
VIDEO_EXTENSIONS == {<<".", "m", "p", "4">>, <<".", "m", "k", "v">>, <<".", "w", "e", "b", "m">>}
SUBTITLE_EXTENSIONS == <<<<".", "s", "r", "t">>, <<".", "v", "t", "t">>>>

\* The section of the videos found directly in the course folder
GeneralId == <<"0", "0", "-", "G", "e", "n", "e", "r", "a", "l">>
Dot == <<".">>
ModuleMarker == <<"m", "o", "d", "u", "l", "e">>
NameSep == <<" ", "-", " ">>

\* A file is the sequence of names from the course folder down to its own
\* name; a tree is a set of files, its directories being those on the way.
CandidateFiles ==
    {<<N_V_MP4>>,
     <<N_V_srt>>,
     <<N_n_pdf>>,
     <<N_a_pdf>>,
     <<N_0, N_a_mp4>>,
     <<N_00_General, N_a_mp4>>,
     <<N_sup2, N_n_pdf>>,
     <<N_S, N_v1_mp4>>,
     <<N_S, N_v01_mp4>>,
     <<N_S, N_xbs_a_mp4>>,
     <<N_S, N_x, N_a_mp4>>,
     <<N_S, N_xbs_Module1, N_v_mp4>>,
     <<N_S, N_progress_json>>,
     <<N_S, N_dot_h>>,
     <<N_S, N_v1_srt>>,
     <<N_S, N_v1_srt, N_n_pdf>>,
     <<N_S, N_v1_vtt>>,
     <<N_S, N_index_html>>,
     <<N_S, N_n_pdf>>,
     <<N_S, N_Module1, N_module2, N_v_mp4>>,
     <<N_S, N_Topic, N_Module1, N_v_mp4>>,
     <<N_S, N_Topic, N_v_mp4>>}

\* The trees of the model: at most MaxFiles of the candidate files, no name
\* being both a file and a directory.
Trees ==
    {t \in SUBSET CandidateFiles :
        /\ Cardinality(t) <= MaxFiles
        /\ \A p, q \in t : Len(p) < Len(q) => SubSeq(q, 1, Len(p)) # p}

\* The orders in which a scan can come across the files of tree t: the order
\* of iterdir() and of os.walk() is the file system's.
Discoveries(t) ==
    {sq \in [1..Cardinality(t) -> t] : \A i, j \in DOMAIN sq : sq[i] = sq[j] => i = j}

Pos(disc, p) == CHOOSE i \in DOMAIN disc : disc[i] = p

IsPrefix(d, p) == Len(d) <= Len(p) /\ SubSeq(p, 1, Len(d)) = d

\* Names of the files and of the directories directly in directory d.
FilesIn(t, d) == {p[Len(p)] : p \in {q \in t : Len(q) = Len(d) + 1 /\ IsPrefix(d, q)}}
SubdirsIn(t, d) == {p[Len(d) + 1] : p \in {q \in t : Len(q) > Len(d) + 1 /\ IsPrefix(d, q)}}

\* The moment a scan in order disc comes across file d/n, across directory
\* d/n (the first of the files below it).
FileRank(disc, d, n) == Pos(disc, Append(d, n))
DirRank(t, disc, d, n) ==
    LET below == {Pos(disc, p) : p \in {q \in t : IsPrefix(Append(d, n), q)}}
    IN CHOOSE i \in below : \A j \in below : i <= j

\* The names S as a list in the order of their ranks.
RECURSIVE ListedBy(_, _)
ListedBy(S, rank) ==
    IF S = {} THEN <<>>
    ELSE LET first == CHOOSE n \in S : \A m \in S : rank[n] <= rank[m]
         IN <<first>> \o ListedBy(S \ {first}, rank)

\* filenames and dirnames of directory d as the file system lists them
ListFiles(t, disc, d) ==
    ListedBy(FilesIn(t, d), [n \in FilesIn(t, d) |-> FileRank(disc, d, n)])
ListDirs(t, disc, d) ==
    ListedBy(SubdirsIn(t, d), [n \in SubdirsIn(t, d) |-> DirRank(t, disc, d, n)])

\* os.walk(top): top first, then the walk of each of its subdirectories
RECURSIVE Walk(_, _, _), WalkEach(_, _, _, _)
Walk(t, disc, d) == <<d>> \o WalkEach(t, disc, d, ListDirs(t, disc, d))
WalkEach(t, disc, d, subs) ==
    IF subs = <<>> THEN <<>>
    ELSE Walk(t, disc, Append(d, subs[1]))
            \o WalkEach(t, disc, d, SubSeq(subs, 2, Len(subs)))

\* name.lower().endswith(VIDEO_EXTENSIONS), ...endswith(SUBTITLE_EXTENSIONS)
IsVideo(n) == \E e \in VIDEO_EXTENSIONS : EndsWith(Lower(n), e)
IsSubtitle(n) ==
    \E i \in DOMAIN SUBTITLE_EXTENSIONS : EndsWith(Lower(n), SUBTITLE_EXTENSIONS[i])
IsHidden(n) == StartsWith(n, Dot)

LastDot(n) ==
    IF \E i \in DOMAIN n : n[i] = "."
    THEN CHOOSE i \in DOMAIN n : n[i] = "." /\ \A j \in (i + 1)..Len(n) : n[j] # "."
    ELSE 0

\* Path(name).stem
Stem(n) ==
    IF 1 < LastDot(n) /\ LastDot(n) < Len(n) THEN SubSeq(n, 1, LastDot(n) - 1) ELSE n

\* os.path.splitext(name)[0]
SplitExtRoot(n) ==
    IF \E j \in 1..(LastDot(n) - 1) : n[j] # "."
    THEN SubSeq(n, 1, LastDot(n) - 1) ELSE n

\* str(path).replace('\\', '/') of the path with components comps
PathStr(comps) == Normalize(Join(comps, <<FS>>))

\* The elements of seq that satisfy Keep, in their order.
RECURSIVE SelectFrom(_, _, _)
SelectFrom(seq, Keep(_), i) ==
    IF i > Len(seq) THEN <<>>
    ELSE (IF Keep(seq[i]) THEN <<seq[i]>> ELSE <<>>) \o SelectFrom(seq, Keep, i + 1)

NoSubtitle == <<>>

\* find_subtitle_for_video(video, dirpath): the first of base + '.srt',
\* base + '.vtt' that exists in directory d, or None
find_subtitle_for_video(t, d, video) ==
    LET base == SplitExtRoot(video)
        there(i) == (base \o SUBTITLE_EXTENSIONS[i]) \in (FilesIn(t, d) \cup SubdirsIn(t, d))
    IN  IF \E i \in DOMAIN SUBTITLE_EXTENSIONS : there(i)
        THEN base \o SUBTITLE_EXTENSIONS[
                CHOOSE i \in DOMAIN SUBTITLE_EXTENSIONS :
                    there(i) /\ \A j \in 1..(i - 1) : ~there(j)]
        ELSE NoSubtitle

\* -------------------------------------------------------------- scan_videos
\* Files next to the videos of the course folder that are never resources.
RootReserved == {N_index_html, N_progress_json, N_course_player_py}
NestedReserved == {N_index_html}

\* The items of seq from the i-th on, each with its sort key.
RECURSIVE KeyedFrom(_, _, _)
KeyedFrom(seq, K(_), i) ==
    IF i > Len(seq) THEN <<>>
    ELSE <<[key |-> K(seq[i]), val |-> seq[i]]>> \o KeyedFrom(seq, K, i + 1)

Keyed(seq, K(_)) == KeyedFrom(seq, K, 1)

\* The videos directly in the course folder, sorted by filename.
RootVideoNames(t, disc) ==
    LET K(n) == natural_sort_key(n)
    IN SortByKey(Keyed(SelectFrom(ListFiles(t, disc, <<>>), IsVideo, 1), K))

\* root_resources: the other files directly in the course folder, in the
\* order of iterdir(); the list is sorted inside `if root_videos:` only
root_resources(t, disc) ==
    LET Keep(n) == /\ ~IsVideo(n) /\ ~IsSubtitle(n) /\ ~IsHidden(n)
                   /\ n \notin RootReserved
        names == SelectFrom(ListFiles(t, disc, <<>>), Keep, 1)
        found == [i \in DOMAIN names |-> [name |-> names[i], path |-> names[i]]]
        K(r) == natural_sort_key(r.name)
    IN  IF \E n \in FilesIn(t, <<>>) : IsVideo(n)
        THEN SortByKey(Keyed(found, K))
        ELSE found

\* The 'resources' entry of a video directly in the course folder.
RootVideoResources(t, disc) == <<>>

RootVideos(t, disc) ==
    LET names == RootVideoNames(t, disc)
    IN [i \in DOMAIN names |->
            [name |-> Stem(names[i]), path |-> names[i],
             subtitle |-> find_subtitle_for_video(t, <<>>, names[i]),
             resources |-> RootVideoResources(t, disc)]]

\* A name the resource list of a nested directory leaves out by its name.
NestedExcluded(n) == n \in NestedReserved

\* resources of a directory d below the course folder
DirResources(t, disc, d) ==
    LET Keep(n) == /\ ~IsVideo(n) /\ ~IsSubtitle(n) /\ ~IsHidden(n)
                   /\ ~NestedExcluded(n)
        names == SelectFrom(ListFiles(t, disc, d), Keep, 1)
        K(r) == natural_sort_key(r.name)
    IN SortByKey(Keyed([i \in DOMAIN names |->
                    [name |-> names[i], path |-> PathStr(Append(d, names[i]))]], K))

\* The display name of video in directory d (d[1] is the section's folder).
DisplayName(d, video) ==
    LET rel == SubSeq(d, 2, Len(d))
        parts == SplitSlash(Normalize(IF rel = <<>> THEN Dot ELSE Join(rel, <<FS>>)))
        IsModule(i) == StartsWith(Lower(parts[i]), ModuleMarker)
    IN  IF rel = <<>> THEN Stem(video)
        ELSE IF \E i \in DOMAIN parts : IsModule(i)
             THEN LET start == CHOOSE i \in DOMAIN parts :
                                    IsModule(i) /\ \A j \in 1..(i - 1) : ~IsModule(j)
                  IN Join(SubSeq(parts, start, Len(parts)), NameSep) \o NameSep \o Stem(video)
             ELSE Join(parts, NameSep) \o NameSep \o Stem(video)

VideoEntry(t, disc, d, video) ==
    LET sub == find_subtitle_for_video(t, d, video)
    IN [name |-> DisplayName(d, video),
        path |-> PathStr(Append(d, video)),
        subtitle |-> IF sub = NoSubtitle THEN NoSubtitle ELSE PathStr(Append(d, sub)),
        resources |-> DirResources(t, disc, d)]

\* The videos of the walked directories dirs, in the order of the walk.
RECURSIVE WalkVideos(_, _, _)
WalkVideos(t, disc, dirs) ==
    IF dirs = <<>> THEN <<>>
    ELSE LET d == dirs[1]
             vids == SelectFrom(ListFiles(t, disc, d), IsVideo, 1)
         IN [i \in DOMAIN vids |-> VideoEntry(t, disc, d, vids[i])]
                \o WalkVideos(t, disc, SubSeq(dirs, 2, Len(dirs)))

\* section_videos of the top-level directory top, sorted by 'full_path', the
\* same string as 'path' and dropped once the list is sorted
SectionVideos(t, disc, top) ==
    LET K(v) == natural_sort_key(v.path)
    IN SortByKey(Keyed(WalkVideos(t, disc, Walk(t, disc, <<top>>)), K))

\* top_level_dirs, sorted by name
TopLevelDirs(t, disc) ==
    LET K(n) == natural_sort_key(n)
    IN SortByKey(Keyed(ListDirs(t, disc, <<>>), K))

\* course_structure[id] = section: an id already there keeps its place
DictSet(dict, section) ==
    IF \E i \in DOMAIN dict : dict[i].id = section.id
    THEN [i \in DOMAIN dict |-> IF dict[i].id = section.id THEN section ELSE dict[i]]
    ELSE Append(dict, section)

SectionKeptAlways(videos) == TRUE

\* `if section_videos:`
SectionKept(videos) == videos # <<>>

RECURSIVE AddSections(_, _, _, _)
AddSections(t, disc, dict, tops) ==
    IF tops = <<>> THEN dict
    ELSE LET videos == SectionVideos(t, disc, tops[1])
             section == [id |-> tops[1], path |-> PathStr(<<tops[1]>>), videos |-> videos]
         IN AddSections(t, disc,
                        IF SectionKept(videos) THEN DictSet(dict, section) ELSE dict,
                        SubSeq(tops, 2, Len(tops)))

GeneralSection(t, disc) ==
    [id |-> GeneralId, path |-> Dot, videos |-> RootVideos(t, disc)]

\* The strings scan_videos computes a sort key of.
SortedStrings(t) ==
    LET rootfiles == FilesIn(t, <<>>)
        rootvideos == {n \in rootfiles : IsVideo(n)}
        videodirs == {d \in {SubSeq(p, 1, Len(p) - 1) : p \in t} :
                        d # <<>> /\ \E n \in FilesIn(t, d) : IsVideo(n)}
    IN  (IF rootvideos = {} THEN {}
         ELSE rootvideos \cup
              {n \in rootfiles : /\ ~IsVideo(n) /\ ~IsSubtitle(n) /\ ~IsHidden(n)
                                 /\ n \notin RootReserved})
        \cup SubdirsIn(t, <<>>)
        \cup UNION {{n \in FilesIn(t, d) : /\ ~IsVideo(n) /\ ~IsSubtitle(n) /\ ~IsHidden(n)
                                           /\ ~NestedExcluded(n)} : d \in videodirs}
        \cup UNION {{PathStr(Append(d, n)) : n \in {m \in FilesIn(t, d) : IsVideo(m)}} :
                        d \in videodirs}

\* scan_videos ends in a ValueError of int().
ScanRaises(t) == \E x \in SortedStrings(t) : KeyRaises(x)

\* sorted(course_structure.items(), key=natural_sort_key(id))
FinalSort(dict) ==
    LET K(sec) == natural_sort_key(sec.id) IN SortByKey(Keyed(dict, K))

\* scan_videos(root_dir) on tree t listed in order disc: the sections in order
scan_videos(t, disc) ==
    FinalSort(AddSections(t, disc,
                IF RootVideoNames(t, disc) = <<>> THEN <<>> ELSE <<GeneralSection(t, disc)>>,
                TopLevelDirs(t, disc)))

\* What scan_videos can return on tree t, the order of the listings being
\* the file system's.
ScanOutcomes(t) == {scan_videos(t, disc) : disc \in Discoveries(t)}

\* ----------------------------------------------------- unreadable directories
\* The directories of tree t.
Dirs(t) == UNION {{SubSeq(p, 1, n) : n \in 1..(Len(p) - 1)} : p \in t}

\* What stands for the content of a directory that cannot be listed: no
\* video, no subtitle, and next to no video.
Unlisted == <<".">>

\* Tree t as the scan gets to see it when the directories lk cannot be listed:
\* os.walk(str(top_dir)) has no onerror handler, the OSError of os.scandir is
\* dropped and nothing below the directory is yielded; the directory itself
\* is still an entry of its parent.
Readable(t, lk) ==
    {p \in t : \A d \in lk : ~(Len(d) < Len(p) /\ IsPrefix(d, p))}
        \cup {Append(d, Unlisted) : d \in {e \in lk : \A f \in lk : ~(Len(f) < Len(e) /\ IsPrefix(f, e))}}

\* ------------------------------------------------------------- state
VARIABLES
    file,   \* content of progress.json
    conn,   \* per client: "idle", "queued" (connected, not yet accepted)
            \* or "handling" (its handler is running)
    h,      \* per client: the handler's position and local variables
    last,   \* the request answered most recently
    tree,   \* the files of the course folder
    locked, \* the directories of the course folder that cannot be listed
    mainpc, \* position of main()
    course, \* main's course_structure
    index_html, \* content of the generated index.html
    arg,    \* the input of the function under study
    ret     \* what the function made of it

servervars == <<file, conn, h, last>>
mainvars == <<tree, locked, mainpc, course, index_html, arg, ret>>
progvars == <<file, conn, h, last, tree, locked, mainpc, course, index_html>>
vars == <<file, conn, h, last, tree, locked, mainpc, course, index_html, arg, ret>>

\* course_structure: not built yet, or the sections in their order
NoCourse == [built |-> FALSE, sections |-> <<>>]
Built(sections) == [built |-> TRUE, sections |-> sections]

\* index.html: absent, emptied or cut short by a write that failed, or the
\* page with the course data and the watched list embedded in it
NoIndex == [state |-> "absent", course |-> <<>>, watched |-> PyList(<<>>)]

\* Where f.write(html_content) can stop when the write fails: the page goes
\* out through a buffer, so the file keeps the bytes written before the
\* error.  The template holds `const courseData = ...;` and, three lines on,
\* `let watchedVideos = ...;`; the end tag is its last line.
\*   empty       nothing was written
\*   cut_head    the cut is before the end of the courseData statement
\*   cut_course  courseData is whole, watchedVideos is not
\*   cut_tail    both are whole, the end tag is missing
PageCuts == {"empty", "cut_head", "cut_course", "cut_tail"}
Truncated(page, cut) ==
    [state |-> cut,
     course |-> IF cut \in {"cut_course", "cut_tail"} THEN page.course ELSE <<>>,
     watched |-> IF cut = "cut_tail" THEN page.watched ELSE PyList(<<>>)]

\* generate_html(course_structure, course_name)
generate_html(sections, f) ==
    [state |-> "page", course |-> sections, watched |-> load_progress(f)]

\* The course folder of the served course: one video.
ServedTree == {<<N_V_MP4>>}
ServedCourse == scan_videos(ServedTree, <<<<N_V_MP4>>>>)

\* No function is under study.
NoArg == <<>>
NoRet == [done |-> FALSE]

IdleH == [pc |-> "idle", route |-> "none", body |-> Body("object", "absent", EmptyStr),
          pre |-> MissingDoc, watched |-> <<>>, is_watched |-> FALSE,
          wrote |-> 0, wfail |-> FALSE]

NoRec == [route |-> "none", body |-> Body("object", "absent", EmptyStr),
          pre |-> MissingDoc, post |-> MissingDoc, status |-> 0, path |-> EmptyStr,
          success |-> FALSE, is_watched |-> FALSE, raised |-> "none",
          wrote |-> 0, wfail |-> FALSE]

\* A server with socketserver.ThreadingMixIn: one thread per connection.
ServerThreaded(c) == TRUE

\* socketserver.TCPServer handles one request at a time: serve_forever
\* accepts the next connection only after the handler of the previous one
\* has returned.
ServerFree(c) == \A q \in Clients : c[q] # "handling"

Init ==
    /\ file \in InitialDocs
    /\ conn = [r \in Clients |-> "idle"]
    /\ h = [r \in Clients |-> IdleH]
    /\ last = NoRec
    /\ tree = ServedTree
    /\ locked = {}
    /\ arg = NoArg
    /\ ret = NoRet
    /\ mainpc = "serving"
    /\ course = Built(ServedCourse)
    /\ index_html = generate_html(ServedCourse, file)

\* json.loads(body) raises JSONDecodeError for a body that is not JSON, and
\* does so before the route is looked at.
ParseFails(b) == b.kind = "malformed"

\* body.decode('utf-8') stands outside the try, and the try around json.loads
\* catches json.JSONDecodeError only: any other exception leaves do_POST.
BodyRaises(b) ==
    CASE b.kind = "undecodable" -> "UnicodeDecodeError"
      [] b.kind = "unloadable" -> "ValueError"
      [] b.kind = "toodeep" -> "RecursionError"
      [] OTHER -> "none"

\* The 'path' of the JSON answer: video_path as it was sent, for the two
\* routes that echo it.
ResponsePath(hr, status) ==
    IF status = 200 /\ hr.route \in {"mark", "toggle"} THEN hr.body.s ELSE EmptyStr

\* The handler of a client ends with local state hr and the document f: the
\* response is recorded (status 0: the handler raised, socketserver logged
\* the exception and closed the connection without a response).
Finish(r, hr, f, status, success, raised) ==
    /\ file' = f
    /\ conn' = [conn EXCEPT ![r] = "idle"]
    /\ h' = [h EXCEPT ![r] = IdleH]
    /\ last' = [route |-> hr.route, body |-> hr.body, pre |-> hr.pre,
                post |-> f, status |-> status, success |-> success,
                path |-> ResponsePath(hr, status),
                is_watched |-> hr.is_watched, raised |-> raised,
                wrote |-> hr.wrote, wfail |-> hr.wfail]
    /\ UNCHANGED mainvars

\* The handler goes on to its next step.
Goto(r, hr, pc) ==
    /\ h' = [h EXCEPT ![r] = [hr EXCEPT !.pc = pc]]
    /\ conn' = [conn EXCEPT ![r] = "handling"]
    /\ UNCHANGED <<file, last>>
    /\ UNCHANGED mainvars

\* A client connects and sends a POST.
Arrive(r) ==
    /\ conn[r] = "idle"
    /\ conn' = [conn EXCEPT ![r] = "queued"]
    /\ UNCHANGED <<file, h, last>>
    /\ UNCHANGED mainvars

\* do_POST up to its first call into the progress store: the server accepts
\* the connection, the body is read and parsed, the route is dispatched and
\* the 'path' field is fetched and tested.
do_POST(r) ==
    /\ conn[r] = "queued"
    /\ ServerFree(conn)
    /\ \E route \in Routes, body \in Bodies :
        LET hr == [IdleH EXCEPT !.route = route, !.body = body, !.pre = file]
        IN  IF BodyRaises(body) # "none"
            THEN \* no response: the handler dies before any routing
                 Finish(r, hr, file, 0, FALSE, BodyRaises(body))
            ELSE IF ParseFails(body)
            THEN \* json.JSONDecodeError: send_error(400), before any routing
                 Finish(r, hr, file, 400, FALSE, "none")
            ELSE CASE route \in {"mark", "toggle"} ->
                        IF body.kind = "nonobject"
                        THEN \* data.get on a value that is no dict
                             Finish(r, hr, file, 0, FALSE, "AttributeError")
                        ELSE IF ~Truthy(body)
                        THEN Finish(r, hr, file, 400, FALSE, "none")
                        ELSE IF body.ptype # "string"
                        THEN \* load_progress(), then video_path.replace
                             \* on a value that is no str
                             Finish(r, hr, file, 0, FALSE, "AttributeError")
                        ELSE Goto(r, hr, IF route = "mark" THEN "save_load"
                                                           ELSE "toggle_load")
                   [] route = "reset" -> Goto(r, hr, "reset_write")
                   [] OTHER -> Finish(r, hr, file, 404, FALSE, "none")

\* do_GET for '/' (or '/index.html'): the path does not end in '.srt', so
\* SimpleHTTPRequestHandler.do_GET sends the index.html that main() wrote
\* before the server started.  The answer is the file as it is on disk.
do_GET(r) ==
    /\ conn[r] = "queued"
    /\ ServerFree(conn)
    /\ index_html.state = "page"
    /\ Finish(r, [IdleH EXCEPT !.route = "page", !.pre = file], file, 200, FALSE, "none")

\* toggle_watched: watched = load_progress(), then the membership test that
\* chooses between remove_progress and save_progress.
toggle_load(r) ==
    /\ conn[r] = "handling"
    /\ h[r].pc = "toggle_load"
    /\ LET v == load_progress(file)
           k == Normalize(h[r].body.s)
       IN  IF v.isnone
           THEN \* `normalized_path in None`
                Finish(r, h[r], file, 0, FALSE, "TypeError")
           ELSE IF PyIn(k, v)
           THEN Goto(r, [h[r] EXCEPT !.is_watched = FALSE], "remove_load")
           ELSE Goto(r, [h[r] EXCEPT !.is_watched = TRUE], "save_load")

\* save/remove/reset_progress returns to do_POST with the document f.
Return(r, hr, f) ==
    /\ file' = f
    /\ h' = [h EXCEPT ![r] = [hr EXCEPT !.pc = "respond"]]
    /\ UNCHANGED <<conn, last>>
    /\ UNCHANGED mainvars

\* do_POST after the call into the progress store: send_response(200) and
\* the JSON answer {success: true, ...}.
send_response(r) ==
    /\ conn[r] = "handling"
    /\ h[r].pc = "respond"
    /\ Finish(r, h[r], file, 200, TRUE, "none")

\* save_progress up to its write: load_progress(), normalize, test, append.
save_load(r) ==
    /\ conn[r] = "handling"
    /\ h[r].pc = "save_load"
    /\ LET v == load_progress(file)
           k == Normalize(h[r].body.s)
       IN  IF v.isnone
           THEN Finish(r, h[r], file, 0, FALSE, "TypeError")
           ELSE IF SaveNeedsWrite(v, k)
           THEN IF HasListMethods(v)
                THEN Goto(r, [h[r] EXCEPT !.watched = ListAppend(v.list, k)],
                          "save_write")
                ELSE \* watched.append on a str or a dict
                     Finish(r, h[r], file, 0, FALSE, "AttributeError")
           ELSE Return(r, h[r], file)

\* remove_progress up to its write: load_progress(), normalize, test, remove.
remove_load(r) ==
    /\ conn[r] = "handling"
    /\ h[r].pc = "remove_load"
    /\ LET v == load_progress(file)
           k == Normalize(h[r].body.s)
       IN  IF v.isnone
           THEN Finish(r, h[r], file, 0, FALSE, "TypeError")
           ELSE IF RemoveNeedsWrite(v, k)
           THEN IF HasListMethods(v)
                THEN Goto(r, [h[r] EXCEPT !.watched = ListRemove(v.list, k)],
                          "remove_write")
                ELSE \* watched.remove on a str or a dict
                     Finish(r, h[r], file, 0, FALSE, "AttributeError")
           ELSE Return(r, h[r], file)

\* The write of the local list `watched` (or of [] for a reset) over the
\* document, with outcome o, and the return to do_POST.
WriteStep(r, w, o) ==
    LET hr == [h[r] EXCEPT !.wrote = @ + 1, !.wfail = (o # "ok")]
        f == WriteFile(file, w, o)
    IN  IF WriteErrorPropagates(o)
        THEN Finish(r, hr, f, 0, FALSE, "OSError")
        ELSE Return(r, hr, f)

\* save_progress: open(PROGRESS_FILE, 'w'), json.dump({'watched': watched})
save_write(r) ==
    /\ conn[r] = "handling"
    /\ h[r].pc = "save_write"
    /\ \E o \in WriteOutcomes : WriteStep(r, h[r].watched, o)

\* remove_progress: open(PROGRESS_FILE, 'w'), json.dump({'watched': watched})
remove_write(r) ==
    /\ conn[r] = "handling"
    /\ h[r].pc = "remove_write"
    /\ \E o \in WriteOutcomes : WriteStep(r, h[r].watched, o)

\* reset_progress: open(PROGRESS_FILE, 'w'), json.dump({'watched': []})
reset_write(r) ==
    /\ conn[r] = "handling"
    /\ h[r].pc = "reset_write"
    /\ \E o \in WriteOutcomes : WriteStep(r, ResetWatched(file), o)

Next ==
    \E r \in Clients :
        \/ Arrive(r)
        \/ do_POST(r)
        \/ do_GET(r)
        \/ toggle_load(r)
        \/ save_load(r)
        \/ save_write(r)
        \/ remove_load(r)
        \/ remove_write(r)
        \/ reset_write(r)
        \/ send_response(r)

Spec == Init /\ [][Next]_vars

\* ------------------------------------------------------------- failing reads
\* load_progress() when progress.json exists and open(PROGRESS_FILE, 'r')
\* or the read raises OSError: `except Exception` prints and returns [].
FailedLoad == PyList(<<>>)

\* save_progress whose load_progress() fails to read: watched = [], the key
\* is not in it and is appended.
save_read_fails(r) ==
    /\ conn[r] = "handling"
    /\ h[r].pc = "save_load"
    /\ file.kind # "missing"
    /\ Goto(r, [h[r] EXCEPT !.watched = ListAppend(FailedLoad.list, Normalize(h[r].body.s))],
            "save_write")

\* remove_progress whose load_progress() fails to read: watched = [], the
\* key is not in it and nothing is written.
remove_read_fails(r) ==
    /\ conn[r] = "handling"
    /\ h[r].pc = "remove_load"
    /\ file.kind # "missing"
    /\ Return(r, h[r], file)

\* toggle_watched whose load_progress() fails to read: the key is not in []
\* and save_progress is called.
toggle_read_fails(r) ==
    /\ conn[r] = "handling"
    /\ h[r].pc = "toggle_load"
    /\ file.kind # "missing"
    /\ Goto(r, [h[r] EXCEPT !.is_watched = TRUE], "save_load")

\* One client sending one request after the other.
TheClient == CHOOSE r \in Clients : TRUE

\* The server with one client, on a file system whose reads can fail.
FaultNext ==
    \/ Arrive(TheClient)
    \/ do_POST(TheClient)
    \/ toggle_load(TheClient)
    \/ toggle_read_fails(TheClient)
    \/ save_load(TheClient)
    \/ save_read_fails(TheClient)
    \/ save_write(TheClient)
    \/ remove_load(TheClient)
    \/ remove_read_fails(TheClient)
    \/ remove_write(TheClient)
    \/ reset_write(TheClient)
    \/ send_response(TheClient)

FaultSpec == Init /\ [][FaultNext]_vars

\* ------------------------------------------------------------- main
\* The script is started in a course folder without a progress document and
\* without an index.html; nobody is connected.
ScanInit ==
    /\ tree \in Trees
    /\ locked = {}
    /\ arg = NoArg
    /\ ret = NoRet
    /\ mainpc = "start"
    /\ course = NoCourse
    /\ index_html = NoIndex
    /\ file = MissingDoc
    /\ conn = [r \in Clients |-> "idle"]
    /\ h = [r \in Clients |-> IdleH]
    /\ last = NoRec

\* main(): course_structure = scan_videos(current_dir), the file system
\* listing the files in some order
main_scan ==
    /\ mainpc = "start"
    /\ ~ScanRaises(Readable(tree, locked))
    /\ \E sections \in ScanOutcomes(Readable(tree, locked)) : course' = Built(sections)
    /\ mainpc' = "scanned"
    /\ UNCHANGED <<arg, ret, tree, locked, index_html>>
    /\ UNCHANGED servervars

\* main(): scan_videos raises ValueError and the script ends in a traceback
main_scan_raises ==
    /\ mainpc = "start"
    /\ ScanRaises(Readable(tree, locked))
    /\ mainpc' = "crashed"
    /\ UNCHANGED <<arg, ret, tree, locked, course, index_html>>
    /\ UNCHANGED servervars

\* main(): `if not course_structure:` print "No video files found!", return
main_no_videos ==
    /\ mainpc = "scanned"
    /\ course.sections = <<>>
    /\ mainpc' = "no_videos"
    /\ UNCHANGED <<arg, ret, tree, locked, course, index_html>>
    /\ UNCHANGED servervars

\* main(): generate_html, then open(index_path, 'w') and f.write
main_generate ==
    /\ mainpc = "scanned"
    /\ course.sections # <<>>
    /\ \E o \in WriteOutcomes :
        /\ \/ o = "ok" /\ index_html' = generate_html(course.sections, file)
           \/ o = "open_fail" /\ index_html' = index_html
           \/ /\ o = "dump_fail"
              /\ \E cut \in PageCuts :
                    index_html' = Truncated(generate_html(course.sections, file), cut)
        /\ mainpc' = IF o = "ok" THEN "generated" ELSE "crashed"
    /\ UNCHANGED <<arg, ret, tree, locked, course>>
    /\ UNCHANGED servervars

\* start_server(): socketserver.TCPServer(("", PORT), handler) binds the
\* port or raises OSError; then serve_forever()
start_server ==
    /\ mainpc = "generated"
    /\ \E bound \in BOOLEAN : mainpc' = IF bound THEN "serving" ELSE "crashed"
    /\ UNCHANGED <<arg, ret, tree, locked, course, index_html>>
    /\ UNCHANGED servervars

\* start_server(): KeyboardInterrupt ends serve_forever and the script
stop_server ==
    /\ mainpc = "serving"
    /\ mainpc' = "stopped"
    /\ UNCHANGED <<arg, ret, tree, locked, course, index_html>>
    /\ UNCHANGED servervars

ScanNext ==
    \/ main_scan
    \/ main_scan_raises
    \/ main_no_videos
    \/ main_generate
    \/ start_server
    \/ stop_server

ScanSpec == ScanInit /\ [][ScanNext]_vars

\* main() in a course folder one directory of which cannot be listed
LockedInit ==
    /\ tree \in Trees
    /\ locked \in {{d} : d \in Dirs(tree)}
    /\ arg = NoArg
    /\ ret = NoRet
    /\ mainpc = "start"
    /\ course = NoCourse
    /\ index_html = NoIndex
    /\ file = MissingDoc
    /\ conn = [r \in Clients |-> "idle"]
    /\ h = [r \in Clients |-> IdleH]
    /\ last = NoRec

LockedSpec == LockedInit /\ [][ScanNext]_vars

\* ------------------------------------------------------ natural_sort_key
\* The strings handed to natural_sort_key: text, decimal digits and a
\* character that is a digit to str.isdigit() only.
KeyChars == {"v", "0", "1", SUP2}

RECURSIVE StringsOver(_, _)
StringsOver(chars, n) ==
    IF n = 0 THEN {<<>>}
    ELSE LET shorter == StringsOver(chars, n - 1)
         IN shorter \cup {Append(s, c) : s \in {x \in shorter : Len(x) = n - 1}, c \in chars}

KeyInputs == StringsOver(KeyChars, MaxKeyLen)

\* Nothing else of the program runs while a function is studied.
Quiet ==
    /\ file = MissingDoc
    /\ conn = [r \in Clients |-> "idle"]
    /\ h = [r \in Clients |-> IdleH]
    /\ last = NoRec
    /\ tree = {}
    /\ locked = {}
    /\ mainpc = "start"
    /\ course = NoCourse
    /\ index_html = NoIndex

KeyInit ==
    /\ Quiet
    /\ arg \in KeyInputs \X KeyInputs
    /\ ret = NoRet

\* list.sort(key=lambda x: natural_sort_key(...)) on two strings: the keys
\* are computed first, ValueError leaving the sort; then they are compared.
sort_keys ==
    /\ ~ret.done
    /\ arg \in KeyInputs \X KeyInputs
    /\ ret' = IF KeyRaises(arg[1]) \/ KeyRaises(arg[2])
              THEN [done |-> TRUE, raised |-> TRUE, keys |-> <<>>, less |-> FALSE]
              ELSE [done |-> TRUE, raised |-> FALSE,
                    keys |-> <<natural_sort_key(arg[1]), natural_sort_key(arg[2])>>,
                    less |-> KeyLess(natural_sort_key(arg[1]), natural_sort_key(arg[2]))]
    /\ UNCHANGED arg
    /\ UNCHANGED progvars

KeySpec == KeyInit /\ [][sort_keys]_vars

\* --------------------------------------------------------- .srt over GET
CR == "CR"
LF == "LF"
BadByte == "0xE9"

WEBVTT == <<"W", "E", "B", "V", "T", "T", LF, LF>>

\* The pieces the .srt files of the model are made of: a timestamp, a digit,
\* a comma, a letter, both line ends, and a byte that is no UTF-8.
Timestamp == <<"0", "0", ":", "0", "0", ":", "0", "1", ",", "0", "0", "0">>
SrtPieces == {Timestamp, <<"1">>, <<",">>, <<"a">>, <<LF>>, <<CR, LF>>, <<BadByte>>}

RECURSIVE Flatten(_)
Flatten(pieces) ==
    IF pieces = <<>> THEN <<>> ELSE pieces[1] \o Flatten(SubSeq(pieces, 2, Len(pieces)))

SrtContents == {Flatten(ps) : ps \in StringsOver(SrtPieces, MaxPieces)}

\* What the requested .srt path is in the served folder.
SrtTargets ==
    {[kind |-> "missing", bytes |-> <<>>], [kind |-> "dir", bytes |-> <<>>]}
        \cup {[kind |-> "file", bytes |-> b] : b \in SrtContents}

\* open(file_path, 'r', encoding='utf-8').read() raises UnicodeDecodeError
DecodeRaises(bytes) == \E i \in DOMAIN bytes : bytes[i] = BadByte

\* The text read from a file opened in text mode: '\r\n' and '\r' come out
\* as '\n'.
RECURSIVE ReadText(_)
ReadText(bytes) ==
    IF bytes = <<>> THEN <<>>
    ELSE IF bytes[1] = CR
    THEN <<LF>> \o ReadText(SubSeq(bytes, IF Len(bytes) >= 2 /\ bytes[2] = LF THEN 3 ELSE 2,
                                                                  Len(bytes)))
    ELSE <<bytes[1]>> \o ReadText(SubSeq(bytes, 2, Len(bytes)))

\* r'(\d{2}:\d{2}:\d{2}),(\d{3})' matches s at position i
TimestampAt(s, i) ==
    /\ i + 11 <= Len(s)
    /\ \A k \in {0, 1, 3, 4, 6, 7, 9, 10, 11} : IsDecimal(s[i + k])
    /\ s[i + 2] = ":" /\ s[i + 5] = ":"
    /\ s[i + 8] = ","

\* re.sub(r'(\d{2}:\d{2}:\d{2}),(\d{3})', r'\1.\2', s) from position i on:
\* the leftmost matches, none overlapping the one before
RECURSIVE ReSubFrom(_, _)
ReSubFrom(s, i) ==
    IF i > Len(s) THEN <<>>
    ELSE IF TimestampAt(s, i)
    THEN SubSeq(s, i, i + 7) \o <<".">> \o SubSeq(s, i + 9, i + 11) \o ReSubFrom(s, i + 12)
    ELSE <<s[i]>> \o ReSubFrom(s, i + 1)

srt_to_vtt(srt_content) == WEBVTT \o ReSubFrom(srt_content, 1)

NoResponse == [done |-> FALSE, status |-> 0, vtt |-> FALSE, body |-> <<>>]

\* SimpleHTTPRequestHandler.do_GET on the path: 404 for what is not there,
\* a redirect to the listing for a directory, else the bytes of the file
super_do_GET(target) ==
    CASE target.kind = "missing" -> [done |-> TRUE, status |-> 404, vtt |-> FALSE, body |-> <<>>]
      [] target.kind = "dir" -> [done |-> TRUE, status |-> 301, vtt |-> FALSE, body |-> <<>>]
      [] OTHER -> [done |-> TRUE, status |-> 200, vtt |-> FALSE, body |-> target.bytes]

VttInit ==
    /\ Quiet
    /\ arg \in SrtTargets
    /\ ret = NoResponse

\* do_GET for a path ending in '.srt': when it exists, read it as UTF-8
\* text, convert and answer 200 text/vtt; an exception on the way (a
\* directory, bytes that are no UTF-8) is printed and the request goes to
\* super().do_GET(), like the request for a path that does not exist
do_GET_srt ==
    /\ ~ret.done
    /\ arg \in SrtTargets
    /\ ret' = IF arg.kind = "file" /\ ~DecodeRaises(arg.bytes)
              THEN [done |-> TRUE, status |-> 200, vtt |-> TRUE,
                    body |-> srt_to_vtt(ReadText(arg.bytes))]
              ELSE super_do_GET(arg)
    /\ UNCHANGED arg
    /\ UNCHANGED progvars

VttSpec == VttInit /\ [][do_GET_srt]_vars

\* ------------------------------------------------------------- typing
TypeOK ==
    /\ file.kind \in {"missing", "unparsable", "nonobject", "nofield", "null", "list",
                     "str", "dict"}
    /\ conn \in [Clients -> {"idle", "queued", "handling"}]
    /\ \A r \in Clients : (conn[r] = "handling") <=> (h[r].pc # "idle")

\* ------------------------------------------------------------- vocabulary
\* The key a request names: its path with backslashes replaced.
KeyOf(b) == Normalize(b.s)

\* k is in the persisted WatchedSet: load_progress finds it in the document.
Member(k, f) == ~load_progress(f).isnone /\ InList(k, load_progress(f).list)

\* Number of entries of the list w equal to k.
Count(k, w) == Cardinality({i \in DOMAIN w : w[i] = k})

\* The document persists a set: no key is listed twice.
PersistsSet(f) == \A k \in StoredKeys : Count(k, load_progress(f).list) <= 1

\* A request of `route` with a usable path, or the handler state of one.
IsCall(x, route) == x.route = route /\ x.body.ptype = "string" /\ x.body.s # EmptyStr

\* The request answered last was a `route` call answered 200 whose writes,
\* if any, all succeeded.
LastDone(route) == last.route = route /\ last.status = 200 /\ ~last.wfail

\* The handler of r has returned from the progress store, all writes having
\* succeeded, and is about to answer.
Returned(r, route) ==
    /\ conn[r] = "handling"
    /\ h[r].pc = "respond"
    /\ h[r].route = route
    /\ ~h[r].wfail

LoadedNotWritten(r) ==
    conn[r] = "handling" /\ h[r].pc \in {"save_write", "remove_write"}

\* ------------------------------------------------------------- C1
\* C1 (as claimed): two progress requests served by this server can
\* interleave their load-then-write of progress.json: while the handler of
\* one request is between its load and its write, the server can start the
\* handler of another request that is waiting.
C1_Interleave ==
    \A r \in Clients, q \in Clients :
        (r # q /\ LoadedNotWritten(r) /\ conn[q] = "queued")
            => ENABLED do_POST(q)

\* C1 (amended): the server handles one request at a time, so no handler
\* runs while another is between its load and its write: the document a
\* handler is about to write over is still the one found when the request
\* was accepted, and no update of an answered request is lost to another
\* request of this server.
C1_Serialized ==
    /\ Cardinality({r \in Clients : conn[r] = "handling"}) <= 1
    /\ \A r \in Clients :
        (conn[r] = "handling" /\ h[r].wrote = 0) => file = h[r].pre

\* A request waits while another one has loaded and not yet written.
C1_Witness ==
    \E r \in Clients, q \in Clients :
        r # q /\ LoadedNotWritten(r) /\ conn[q] = "queued"

\* ------------------------------------------------------------- C2
\* C2: toggle(k) performed twice in a row (the second accepted on the
\* document the first left, both writes succeeding), on a document that
\* persists a set, leaves the membership of k in the persisted set as it
\* was before the first toggle.
C2_ToggleTwice ==
    \A r \in Clients :
        (/\ LastDone("toggle")
         /\ Returned(r, "toggle")
         /\ KeyOf(h[r].body) = KeyOf(last.body)
         /\ h[r].pre = last.post
         /\ PersistsSet(last.pre))
            => (Member(KeyOf(last.body), file) <=> Member(KeyOf(last.body), last.pre))

\* The second of two toggles of a key that was watched has returned.
C2_Witness ==
    \E r \in Clients :
        /\ LastDone("toggle")
        /\ Returned(r, "toggle")
        /\ KeyOf(h[r].body) = KeyOf(last.body)
        /\ h[r].pre = last.post
        /\ PersistsSet(last.pre)
        /\ Member(KeyOf(last.body), last.pre)
        /\ Len(last.pre.watched) = 2

\* ------------------------------------------------------------- C3
\* C3 (as claimed): toggle(k) inserts k when absent, deletes it when
\* present, and answers 'watched' equal to the membership of k in the
\* persisted set after the call, whatever the document held before.
C3_ToggleResult ==
    LastDone("toggle") =>
        LET k == KeyOf(last.body)
        IN  /\ Member(k, last.post) <=> ~Member(k, last.pre)
            /\ last.is_watched <=> Member(k, last.post)

\* ------------------------------------------------------------- C4
\* C4 (as claimed): add(k) is an idempotent insert: after an add(k) that was
\* answered, its write if any having succeeded, k is in the persisted set,
\* listed once if it was absent before; a second add(k) writes nothing and
\* leaves the document exactly as the first did.
C4_AddIdempotent ==
    /\ (LastDone("mark") /\ IsCall(last, "mark")) =>
            /\ Member(KeyOf(last.body), last.post)
            /\ ~Member(KeyOf(last.body), last.pre)
                  => Count(KeyOf(last.body), last.post.watched) = 1
    /\ \A r \in Clients :
        (/\ LastDone("mark")
         /\ Returned(r, "mark")
         /\ KeyOf(h[r].body) = KeyOf(last.body)
         /\ h[r].pre = last.post)
            => (file = last.post /\ h[r].wrote = 0)

\* ------------------------------------------------------------- C5
\* C5 (as claimed): after remove(k), here the removing branch of a toggle
\* whose write succeeded, k is not in the persisted set, whatever the
\* watched list held before.
C5_RemoveDeletes ==
    (LastDone("toggle") /\ ~last.is_watched)
        => ~Member(KeyOf(last.body), last.post)

\* ------------------------------------------------------------- C6
\* C6: after a reset() whose write succeeded the persisted set is empty,
\* whatever the document held before (missing and malformed included).
C6_ResetEmpties ==
    LastDone("reset") =>
        /\ last.post = ListDoc(<<>>)
        /\ load_progress(last.post) = PyList(<<>>)
        /\ \A k \in StoredKeys : ~Member(k, last.post)

\* A reset has emptied a document that listed two keys.
C6_Witness ==
    /\ LastDone("reset")
    /\ last.pre.kind = "list"
    /\ Len(last.pre.watched) = 2

\* ------------------------------------------------------------- C7
\* C7 (as claimed): load() returns an empty set for a missing or unparsable
\* document, and for every content of the document the value it returns can
\* be used by add, remove and toggle without failing: no handler of a
\* request with a usable path raises on the value loaded.
C7_LoadUsable ==
    /\ file.kind \in {"missing", "unparsable"} => load_progress(file) = PyList(<<>>)
    /\ (IsCall(last, "mark") \/ IsCall(last, "toggle")) => last.raised = "none"

\* ------------------------------------------------------------- C8
\* C8 (as claimed): every mutation call that is answered has rewritten the
\* persisted document.
C8_AlwaysRewrites ==
    (last.route \in {"mark", "toggle", "reset"} /\ last.status = 200)
        => last.wrote >= 1

\* C8 (amended): an answered mutation call that changes the persisted set
\* has rewritten the document, once; every reset and every toggle write
\* once, an add of a key that is present writes nothing.  A write that
\* succeeds dumps the entire list: every other key is listed as often as
\* before.  A call that does not write leaves the document as it was.
C8_RewriteWhenChanged ==
    (last.route \in {"mark", "toggle", "reset"} /\ last.status = 200) =>
        /\ (\E k \in StoredKeys : Member(k, last.post) # Member(k, last.pre))
                => last.wrote = 1
        /\ last.wrote <= 1
        /\ last.route \in {"toggle", "reset"} => last.wrote = 1
        /\ (last.route = "mark" /\ Member(KeyOf(last.body), last.pre)) => last.wrote = 0
        /\ last.wrote = 0 => last.post = last.pre
        /\ (last.wrote = 1 /\ ~last.wfail) =>
              /\ last.post.kind = "list"
              /\ last.route # "reset" =>
                    \A j \in StoredKeys \ {KeyOf(last.body)} :
                        Count(j, last.post.watched)
                            = Count(j, load_progress(last.pre).list)

\* An add of a key already present in a list of two was answered without
\* any write.
C8_Witness ==
    /\ last.route = "mark"
    /\ last.status = 200
    /\ last.wrote = 0
    /\ last.pre.kind = "list"
    /\ Len(last.pre.watched) = 2

\* ------------------------------------------------------------- C9
\* C9: when the write of the document fails during mark_watched,
\* toggle_watched or reset_progress, the request is still answered 200 with
\* success true, and toggle answers the 'watched' value it intended.
C9_FailureAnswered200 ==
    last.wfail =>
        /\ last.route \in {"mark", "toggle", "reset"}
        /\ last.status = 200
        /\ last.success
        /\ last.raised = "none"
        /\ last.route = "toggle" =>
              (last.is_watched <=> ~Member(KeyOf(last.body), last.pre))

\* A toggle whose write failed answered a 'watched' value that differs from
\* the persisted membership.
C9_Witness ==
    /\ last.wfail
    /\ last.route = "toggle"
    /\ last.status = 200
    /\ last.is_watched
    /\ ~Member(KeyOf(last.body), last.post)

\* ------------------------------------------------------------- C10
\* A POST the API must reject: a body that is not JSON, or, on the routes
\* that take a path, a body that is no object or whose 'path' is missing,
\* empty or not a string.
InvalidRequest(x) ==
    \/ x.route # "none" /\ x.body.kind \in {"malformed", "undecodable", "toodeep"}
    \/ /\ x.route \in {"mark", "toggle"}
       /\ \/ x.body.kind \in {"nonobject", "unloadable"}
          \/ x.body.ptype # "string"
          \/ x.body.s = EmptyStr

\* C10 (as claimed): every invalid POST is rejected with status 400 and
\* leaves the persisted document unchanged.
C10_InvalidRejected ==
    InvalidRequest(last) => (last.status = 400 /\ last.post = last.pre)

\* ------------------------------------------------------------- C11
\* C11 (as claimed): a POST to /api/mark_watched with a non-empty path p is
\* answered 200 {success: true, path: p} and p, backslashes replaced, is in
\* the persisted set afterwards; a POST to /api/reset_progress is answered
\* 200 {success: true} and the persisted set is empty afterwards (writes
\* succeeding).
C11_MarkAndReset ==
    /\ (IsCall(last, "mark") /\ ~last.wfail) =>
            /\ last.status = 200
            /\ last.success
            /\ last.path = last.body.s
            /\ Member(Normalize(last.body.s), last.post)
    /\ (last.route = "reset" /\ ~ParseFails(last.body) /\ ~last.wfail) =>
            /\ last.status = 200
            /\ last.success
            /\ load_progress(last.post) = PyList(<<>>)

\* ------------------------------------------------------------- C12
\* C12 (as claimed): every POST to a route other than the three API routes
\* is answered 404, whatever its body, and changes no persisted state.
C12_Unknown404 ==
    last.route = "other" => (last.status = 404 /\ last.post = last.pre)

\* ------------------------------------------------------------- course model
\* The video files of tree t; those directly in the course folder.
VideoFiles(t) == {p \in t : IsVideo(p[Len(p)])}
RootVideoFiles(t) == {p \in VideoFiles(t) : Len(p) = 1}

\* The directory of file p.
DirOf(p) == SubSeq(p, 1, Len(p) - 1)

\* The places <<i, j>> of the video entries: j-th video of the i-th section.
Places(sections) ==
    {<<i, j>> : i \in DOMAIN sections, j \in 1..MaxFiles} \cap
    {pl \in (1..MaxFiles) \X (1..MaxFiles) :
        pl[1] \in DOMAIN sections /\ pl[2] \in DOMAIN sections[pl[1]].videos}

EntryAt(sections, pl) == sections[pl[1]].videos[pl[2]]

\* The keys of the videos of each section, in their order.
VideoOrder(sections) ==
    [i \in DOMAIN sections |->
        [j \in DOMAIN sections[i].videos |-> sections[i].videos[j].path]]

\* main() has the course_structure of the scan in hand.
Scanned == mainpc # "start" /\ course.built

\* ------------------------------------------------------------- C13
\* C13: whenever the course folder directly contains a video, the section
\* '00-General' is the first section of the course model, whatever the names
\* of the top-level directories.
C13_GeneralFirst ==
    (Scanned /\ RootVideoFiles(tree) # {}) => course.sections[1].id = GeneralId

\* ------------------------------------------------------------- C14
\* C14: in the course model of any scanned tree no two video entries, of
\* the same or of different sections, have the same key.
C14_KeysUnique ==
    Scanned =>
        \A p, q \in Places(course.sections) :
            EntryAt(course.sections, p).path = EntryAt(course.sections, q).path => p = q

\* ------------------------------------------------------------- C15
\* C15: the order of the videos of each section is the same for every order
\* in which a scan of the same tree can come across directories and files.
C15_OrderIndependent ==
    mainpc = "scanned" =>
        \A other \in ScanOutcomes(tree) : VideoOrder(other) = VideoOrder(course.sections)

\* ------------------------------------------------------------- C16
\* The display name of the video file p below a section folder: the
\* directories between the section folder and the file, from the leftmost
\* one whose name starts with 'module' in any case if there is one, joined
\* by ' - ', then ' - ' and the stem; the stem alone for a video directly in
\* the section folder.
NamedByFolders(p) ==
    LET dirs == SubSeq(p, 2, Len(p) - 1)
        stem == Stem(p[Len(p)])
        IsModule(i) == StartsWith(Lower(dirs[i]), ModuleMarker)
        from == IF \E i \in DOMAIN dirs : IsModule(i)
                THEN CHOOSE i \in DOMAIN dirs : IsModule(i) /\ \A j \in 1..(i - 1) : ~IsModule(j)
                ELSE 1
    IN  IF dirs = <<>> THEN stem
        ELSE Join(SubSeq(dirs, from, Len(dirs)), NameSep) \o NameSep \o stem

\* C16: every video below a top-level directory has an entry with the
\* display name NamedByFolders gives.
C16_DisplayName ==
    Scanned =>
        \A p \in VideoFiles(tree) \ RootVideoFiles(tree) :
            \E pl \in Places(course.sections) :
                /\ EntryAt(course.sections, pl).path = PathStr(p)
                /\ EntryAt(course.sections, pl).name = NamedByFolders(p)

\* ------------------------------------------------------------- C17
\* C17: every section of the course model has at least one video; the
\* section with path '.' is there only if a video is directly in the course
\* folder, the section of a top-level directory only if a video is
\* somewhere below that directory.
C17_NoEmptySection ==
    Scanned =>
        \A i \in DOMAIN course.sections :
            LET sec == course.sections[i]
            IN  /\ sec.videos # <<>>
                /\ sec.path = Dot => RootVideoFiles(tree) # {}
                /\ sec.path # Dot =>
                        \E p \in VideoFiles(tree) : Len(p) > 1 /\ p[1] = sec.id

\* A tree with a top-level directory without videos and with videos
\* elsewhere was scanned.
C17_Witness ==
    /\ mainpc = "scanned"
    /\ course.sections # <<>>
    /\ \E d \in SubdirsIn(tree, <<>>) : \A p \in VideoFiles(tree) : p[1] # d

\* ------------------------------------------------------------- C18
\* C18: the scan always completes (once main() is past its scan there is a
\* course model); when the tree has no video the course model is empty, the
\* script stops at "no videos" and neither writes index.html nor starts the
\* server; the server runs only with a non-empty course model.
C18_ScanCompletes ==
    /\ mainpc # "start" => course.built
    /\ (course.built /\ VideoFiles(tree) = {}) =>
            /\ course.sections = <<>>
            /\ mainpc \in {"scanned", "no_videos"}
            /\ index_html = NoIndex
    /\ mainpc \in {"generated", "serving", "stopped"} =>
            (course.built /\ course.sections # <<>>)

\* ------------------------------------------------------------- C19
\* The names of the files directly in directory d that are no video, no
\* subtitle, not hidden and not reserved.
ResourceNames(t, d) ==
    {n \in FilesIn(t, d) : /\ ~IsVideo(n) /\ ~IsSubtitle(n) /\ ~IsHidden(n)
                           /\ n \notin RootReserved}

\* The list rs names exactly the files of S, each once, in natural order.
ListsInOrder(rs, S) ==
    /\ {rs[i].name : i \in DOMAIN rs} = S
    /\ Len(rs) = Cardinality(S)
    /\ \A i, j \in DOMAIN rs :
            i < j => ~KeyLess(natural_sort_key(rs[j].name), natural_sort_key(rs[i].name))

\* C19: every video directly in the course folder carries the resources of
\* the course folder.
C19_RootResources ==
    Scanned =>
        \A pl \in Places(course.sections) :
            course.sections[pl[1]].path = Dot =>
                ListsInOrder(EntryAt(course.sections, pl).resources, ResourceNames(tree, <<>>))

\* ------------------------------------------------------------- C20
\* C20: the resource list of every directory is exactly its files that are
\* no video, no subtitle, not hidden and none of index.html, progress.json
\* and course_player.py, in natural order of their names: the list
\* collected for the course folder, and the list every video below a
\* top-level directory carries.
C20_ResourceFilter ==
    Scanned =>
        /\ \A disc \in Discoveries(tree) :
                ListsInOrder(root_resources(tree, disc), ResourceNames(tree, <<>>))
        /\ \A p \in VideoFiles(tree) \ RootVideoFiles(tree) :
                \E pl \in Places(course.sections) :
                    /\ EntryAt(course.sections, pl).path = PathStr(p)
                    /\ ListsInOrder(EntryAt(course.sections, pl).resources,
                                    ResourceNames(tree, DirOf(p)))

\* ------------------------------------------------------------- C21
\* The videos of the tree that lie below no unreadable directory.
ReadableVideos == {p \in VideoFiles(tree) : \A d \in locked : ~IsPrefix(d, p)}

\* C21: when a directory of the course folder cannot be read, the scan still
\* returns, and the course model it returns has an entry for every video of
\* the readable parts of the tree.
C21_UnreadableSkipped ==
    locked # {} =>
        /\ mainpc # "start" => course.built
        /\ Scanned =>
            \A p \in ReadableVideos :
                \E pl \in Places(course.sections) :
                    EntryAt(course.sections, pl).path = PathStr(p)

\* ------------------------------------------------------------- C22
\* The comma at position i of b separates the seconds from the milliseconds
\* of a timestamp HH:MM:SS,mmm.
TimestampComma(b, i) ==
    /\ i > 8 /\ i + 3 <= Len(b)
    /\ b[i] = ","
    /\ \A k \in {-8, -7, -5, -4, -2, -1, 1, 2, 3} : b[i + k] \in {"0", "1"}
    /\ b[i - 6] = ":" /\ b[i - 3] = ":"

\* Content b as WebVTT: the header once, every timestamp comma a period,
\* everything else as it is.
AsWebVTT(b) ==
    <<"W", "E", "B", "V", "T", "T", LF, LF>>
        \o [i \in DOMAIN b |-> IF TimestampComma(b, i) THEN "." ELSE b[i]]

\* C22: the answer to a GET for an .srt path that is a file is 200 text/vtt
\* with the content of the file as WebVTT: one header 'WEBVTT\n\n', every
\* timestamp comma a period, all other content unchanged.
C22_SrtServedAsVtt ==
    (ret.done /\ arg.kind = "file") =>
        /\ ret.status = 200
        /\ ret.vtt
        /\ ret.body = AsWebVTT(arg.bytes)

\* ------------------------------------------------------------- C23
\* C23: natural_sort_key returns a key for every string, and two keys it
\* returns have, position by position, two integers or two texts.
C23_KeyTotal ==
    ret.done =>
        /\ ~ret.raised
        /\ \A i \in DOMAIN ret.keys[1] \cap DOMAIN ret.keys[2] :
                ret.keys[1][i].num = ret.keys[2][i].num

\* ------------------------------------------------------------- C24
\* Strings a and b are the same but for one maximal run of decimal digits:
\* x in a, y in b, from position i on.
OneRunApart(a, b, i, x, y) ==
    /\ x >= 1 /\ y >= 1
    /\ i + x - 1 <= Len(a) /\ i + y - 1 <= Len(b)
    /\ SubSeq(a, 1, i - 1) = SubSeq(b, 1, i - 1)
    /\ SubSeq(a, i + x, Len(a)) = SubSeq(b, i + y, Len(b))
    /\ \A k \in i..(i + x - 1) : a[k] \in {"0", "1"}
    /\ \A k \in i..(i + y - 1) : b[k] \in {"0", "1"}
    /\ i > 1 => a[i - 1] \notin {"0", "1"}
    /\ i + x <= Len(a) => a[i + x] \notin {"0", "1"}

\* The number a run of the digits 0 and 1 stands for.
RECURSIVE RunValue(_)
RunValue(ds) ==
    IF ds = <<>> THEN 0
    ELSE 10 * RunValue(SubSeq(ds, 1, Len(ds) - 1)) + (IF ds[Len(ds)] = "1" THEN 1 ELSE 0)

\* C24: of two strings that are the same but for one maximal digit run, the
\* one with the smaller number in the run has the smaller key, and with the
\* same number the keys are equal.
C24_NumericOrder ==
    ret.done =>
        \A i \in 1..MaxKeyLen, x \in 1..MaxKeyLen, y \in 1..MaxKeyLen :
            OneRunApart(arg[1], arg[2], i, x, y) =>
                LET vx == RunValue(SubSeq(arg[1], i, i + x - 1))
                    vy == RunValue(SubSeq(arg[2], i, i + y - 1))
                IN  /\ ~ret.raised
                    /\ vx < vy => ret.less
                    /\ vx = vy => ret.keys[1] = ret.keys[2]

\* ------------------------------------------------------------- C25
\* The subtitle the claim gives the video file p of tree t: the first of
\* base + '.srt', base + '.vtt' that is a file next to p, as a path from the
\* course folder, or none.
ExpectedSubtitle(t, p) ==
    LET d == DirOf(p)
        b == SplitExtRoot(p[Len(p)])
        isfile(i) == (b \o SUBTITLE_EXTENSIONS[i]) \in FilesIn(t, d)
    IN  IF \E i \in DOMAIN SUBTITLE_EXTENSIONS : isfile(i)
        THEN Join(Append(d, b \o SUBTITLE_EXTENSIONS[
                CHOOSE i \in DOMAIN SUBTITLE_EXTENSIONS :
                    isfile(i) /\ \A j \in 1..(i - 1) : ~isfile(j)]), <<FS>>)
        ELSE NoSubtitle

\* C25: once the scan has returned, the subtitle of the entry of a video with
\* base name b in directory d is the path, from the course folder and in d, of
\* the first of b.srt, b.vtt that is a file in d, and none when neither is.
C25_Subtitle ==
    Scanned =>
        \A pl \in Places(course.sections) : \A p \in VideoFiles(tree) :
            EntryAt(course.sections, pl).path = PathStr(p) =>
                EntryAt(course.sections, pl).subtitle = ExpectedSubtitle(tree, p)

\* ------------------------------------------------------------- C26
\* C26: once the scan has returned, every recognized video file of the tree,
\* in the root or at any depth below a top-level directory, is the video of
\* exactly one entry of the course model, whatever the top-level directories
\* are called, a directory named '00-General' included.
C26_EveryVideoOnce ==
    Scanned =>
        \A p \in VideoFiles(tree) :
            Cardinality({pl \in Places(course.sections) :
                EntryAt(course.sections, pl).path = PathStr(p)}) = 1

\* ------------------------------------------------------------- C27
\* C27: whenever the page is loaded while the server runs, the watched list
\* embedded in the page received is the list persisted at that moment.
C27_PageFresh ==
    last.route = "page" => index_html.watched = load_progress(last.post)

\* ------------------------------------------------------------- C28
\* The keys requests and documents can name.
AllKeys == StoredKeys \cup {Normalize(p) : p \in RequestPaths}

\* C28: when the write of an add, remove or reset fails, open having failed
\* or the dump after it, the set a load reads afterwards is the set that
\* was persisted before the operation.
C28_FailedWriteKeeps ==
    (last.route \in {"mark", "toggle", "reset"} /\ last.wfail) =>
        \A k \in AllKeys : Member(k, last.post) <=> Member(k, last.pre)

\* ------------------------------------------------------------- C29
\* The server started on a document from which load_progress reads the
\* empty list (a missing or an empty one among them): the list embedded in
\* the page at start.
StartedEmpty == index_html.watched = PyList(<<>>)

HasBackslash(k) == \E i \in DOMAIN k : k[i] = BS

\* C29: started on a missing or empty document, after any sequence of
\* requests the persisted list names no key twice and no key with a
\* backslash in it.
C29_StoreClean ==
    StartedEmpty =>
        /\ ~load_progress(file).isnone
        /\ \A i, j \in DOMAIN load_progress(file).list :
                load_progress(file).list[i] = load_progress(file).list[j] => i = j
        /\ \A i \in DOMAIN load_progress(file).list :
                ~HasBackslash(load_progress(file).list[i])

\* Started empty, a key was added under its backslash spelling next to
\* another key.
C29_Witness ==
    /\ StartedEmpty
    /\ last.route \in {"mark", "toggle"}
    /\ last.body.s = PathDA
    /\ last.status = 200
    /\ file = ListDoc(<<KeyA, KeyDA>>)

\* ------------------------------------------------------------- C30
\* C30: an add, remove or toggle of k that returns, its write if any having
\* succeeded, leaves every other key j in the persisted set if and only if
\* it was in it before, also when the read at its start failed.
C30_OthersKept ==
    ((IsCall(last, "mark") \/ IsCall(last, "toggle")) /\ last.status = 200 /\ ~last.wfail) =>
        \A j \in AllKeys \ {KeyOf(last.body)} :
            Member(j, last.post) <=> Member(j, last.pre)

====
